---- MODULE Spec2Model ----
(***************************************************************************)
(* A model of pydrag's batch scrobble submission (Track.scrobble_tracks),  *)
(* of the process-wide Config singleton (Config.instance) and of the       *)
(* payload normalisation done by the from_dict class methods.              *)
(*                                                                         *)
(* Python values are modelled as records tagged by a field k, so that      *)
(* None, strings, mappings and model instances can be compared.            *)
(***************************************************************************)
EXTENDS Integers, Sequences, FiniteSets, TLC

VARIABLES
    \* ---- Track.scrobble_tracks -------------------------------------------
    pc,          \* position of the scrobble_tracks call
    tracks,      \* the tracks argument
    requested,   \* the batch_size argument, as the caller passed it
    batch_size,  \* the local batch_size, after line 367
    batches,     \* the local batches (line 374)
    idx,         \* index of the batch the for loop of line 375 is at
    status,      \* the local status: None or the accumulator
    ret,         \* what the call returned or raised
    submitted,   \* the chunks handed to Track.scrobble, in call order
    applied,     \* the chunks the remote service has applied
    results,     \* the chunk results Track.scrobble returned, as returned
    scrobble_params, \* the params of the last Track.scrobble call, or None
    \* ---- Config ----------------------------------------------------------
    instance,    \* Config._instance
    env,         \* os.environ: the LASTFM_ variables that are set
    lastArgs,    \* the arguments of the last Config.instance call
    prevInstance,\* Config._instance as that call found it
    cfgRet,      \* what that call returned or raised
    url,         \* what the last AuthToken.auth_url returned or raised
    \* ---- from_dict -------------------------------------------------------
    cls,         \* the class whose from_dict was called last
    orig,        \* the mapping the caller passed, as it was before the call
    data,        \* the caller's mapping, as the call left it
    obj,         \* what the call returned or raised
    value        \* the instance whose to_dict made that mapping, or None

scrobbleVars == <<pc, tracks, requested, batch_size, batches, idx, status, ret,
                  submitted, applied, results, scrobble_params>>

configVars == <<instance, env, lastArgs, prevInstance, cfgRet, url>>

modelVars == <<cls, orig, data, obj, value>>

vars == <<scrobbleVars, configVars, modelVars>>

\* ---------------------------------------------------------------- values --

None == [k |-> "none"]

\* a str
Str(s) == [k |-> "str", s |-> s]

\* an int
PyInt(n) == [k |-> "int", n |-> n]

\* a bool
PyBool(b) == [k |-> "bool", b |-> b]

\* a dict, m a function from its keys to its values
Dict(m) == [k |-> "dict", m |-> m]

\* a list
List(items) == [k |-> "list", items |-> items]

\* d[key] = v
Put(d, key, v) ==
    [x \in DOMAIN d \cup {key} |-> IF x = key THEN v ELSE d[x]]

\* bool(v) of None or a str
Truthy(v) == v # None /\ v # Str("")

Min(a, b) == IF a <= b THEN a ELSE b

\* ------------------------------------------------------------------------
\* Bounds of the model
\* ------------------------------------------------------------------------
MaxTracks == 52
MaxChunks == 3
MaxIgnored == 2
MaxConfigs == 3
MaxNumber == 12

\* The batch sizes a caller asks for (the default is 10, line 356).
BatchSizes == {1, 2, 3, 10, 25, 50, 51, 75}

\* ------------------------------------------------------------------------
\* Model instances and BaseModel.to_dict
\* ------------------------------------------------------------------------

\* A field of a model class: its name, what from_dict coerces it to ("str",
\* "int", "float" or "other" for no coercion) and whether it has no default
Field(name, type, required) ==
    [name |-> name, type |-> type, required |-> required]

\* common.py lines 165-177
ScrobbleTrackFields ==
    <<Field("artist", "str", TRUE), Field("track", "str", TRUE),
      Field("timestamp", "int", FALSE), Field("track_number", "str", FALSE),
      Field("album", "str", FALSE), Field("album_artist", "str", FALSE),
      Field("duration", "int", FALSE), Field("mbid", "str", FALSE),
      Field("context", "str", FALSE), Field("stream_id", "str", FALSE),
      Field("chosen_by_user", "other", FALSE)>>

\* An instance of class c with the attribute values f
Instance(c, f) == [k |-> c, f |-> f]

IsInstance(v) == "f" \in DOMAIN v

\* lines 16-26: to_dict, asdict with the filter that drops None and dict
\* values; asdict goes into instances and lists
RECURSIVE AsDictValue(_)
AsDictValue(v) ==
    IF IsInstance(v)
    THEN Dict([name \in {n \in DOMAIN v.f :
                            v.f[n] # None /\ v.f[n].k # "dict"} |->
                  AsDictValue(v.f[name])])
    ELSE IF v.k = "list"
         THEN List([i \in 1..Len(v.items) |-> AsDictValue(v.items[i])])
         ELSE v

ToDict(o) == AsDictValue(o).m

\* ------------------------------------------------------------------------
\* Track.scrobble_tracks
\* ------------------------------------------------------------------------

\* line 367: the maximum batch size
MaxBatch == 50

\* The clamp left out: the requested size is used as it is.
ClampBatchSize_Unclamped(b) == b

\* line 367: batch_size = min(batch_size, 50)
ClampBatchSize(b) == Min(b, MaxBatch)

\* range(0, len(l), n), as the 1-based start offsets minus one
ChunkStarts(len, n) == {i \in 0..(len - 1) : i % n = 0}

\* lines 369-371 and 374: list(divide_chunks(l, n)); l[i : i + n] stops at
\* the end of the list
divide_chunks(l, n) ==
    LET nb == Cardinality(ChunkStarts(Len(l), n))
    IN  [j \in 1..nb |->
            SubSeq(l, (j - 1) * n + 1, Min((j - 1) * n + n, Len(l)))]

\* The ScrobbleTrack the caller passed as track id: the required fields and
\* the timestamp are set, each optional field is set on some tracks and None
\* on the others
TrackOf(id) ==
    Instance("ScrobbleTrack",
        [artist |-> Str("Drake"),
         track |-> Str("One Dance"),
         timestamp |-> PyInt(id),
         track_number |-> IF id % 2 = 1 THEN Str("3") ELSE None,
         album |-> IF id % 2 = 0 THEN Str("Views") ELSE None,
         album_artist |-> IF id % 3 = 0 THEN Str("Drake") ELSE None,
         duration |-> None,
         mbid |-> None,
         context |-> None,
         stream_id |-> IF id % 4 = 1 THEN Str("s1") ELSE None,
         chosen_by_user |-> IF id % 5 = 0 THEN PyBool(TRUE) ELSE None])

\* to_camel_case of the field names of ScrobbleTrack: the words after the
\* first are capitalised and the underscores dropped
ToCamelCase(name) ==
    CASE name = "track_number" -> "trackNumber"
      [] name = "album_artist" -> "albumArtist"
      [] name = "stream_id" -> "streamId"
      [] name = "chosen_by_user" -> "chosenByUser"
      [] OTHER -> name

\* common.py lines 179-180: ScrobbleTrack.to_api_dict
ToApiDict(track) ==
    LET d == ToDict(track)
    IN  [key \in {ToCamelCase(name) : name \in DOMAIN d} |->
            d[CHOOSE name \in DOMAIN d : ToCamelCase(name) = key]]

\* line 351: "{}[{}]".format(field, idx)
Key(field, i) == field \o "[" \o ToString(i) \o "]"

\* line 348: track.to_dict().items(), the fields in the order of the class
Items(track) ==
    LET d == ToDict(track)
        names == SelectSeq([j \in 1..Len(ScrobbleTrackFields) |->
                               ScrobbleTrackFields[j].name],
                           LAMBDA n : n \in DOMAIN d)
    IN  [j \in 1..Len(names) |-> <<names[j], d[names[j]]>>]

\* lines 348-351: the inner loop over the items of the track at index i,
\* from item j on, as the updates it makes to params: params.update puts an
\* entry over an entry of the same key
RECURSIVE UpdateFields(_, _, _, _)
UpdateFields(ps, items, i, j) ==
    IF j > Len(items)
    THEN ps
    ELSE UpdateFields(IF items[j][2] = None
                      THEN ps
                      ELSE (Key(items[j][1], i) :> items[j][2]) @@ ps,
                      items, i, j + 1)

\* lines 347-351: the updates of the tracks at positions lo..hi of the
\* chunk, enumerate counting from first; the updates of a later track go over
\* those of an earlier one
RECURSIVE UpdateTracks(_, _, _, _)
UpdateTracks(batch, first, lo, hi) ==
    IF lo > hi
    THEN <<>>
    ELSE IF lo = hi
         THEN UpdateFields(<<>>, Items(TrackOf(batch[lo])), first + lo - 1, 1)
         ELSE LET mid == (lo + hi) \div 2
              IN  UpdateTracks(batch, first, mid + 1, hi)
                      @@ UpdateTracks(batch, first, lo, mid)

\* lines 346-351: params after the two loops, enumerate counting from first
ParamsFrom(batch, first) ==
    UpdateTracks(batch, first, 1, Len(batch))
        @@ ("method" :> Str("track.scrobble"))

\* The index counted over the whole tracks argument instead of the chunk.
ScrobbleParams_GlobalIndex(batch) ==
    ParamsFrom(batch, IF batch = <<>> THEN 0 ELSE batch[1] - 1)

\* lines 346-351: the params Track.scrobble builds for a chunk;
\* enumerate(tracks) counts from 0
ScrobbleParams(batch) == ParamsFrom(batch, 0)

\* A TrackScrobble: the per-track outcome records and the aggregate counters
TrackScrobble(scrobble, accepted, ignored) ==
    [k |-> "TrackScrobble", scrobble |-> scrobble,
     accepted |-> accepted, ignored |-> ignored]

\* The per-track outcome records the service reports for a chunk of which it
\* ignored the first ig tracks
Outcomes(batch, ig) ==
    [i \in 1..Len(batch) |-> [track |-> batch[i], ignored |-> (i <= ig)]]

\* The results the remote service may report for a chunk: ig of its tracks
\* ignored, the others accepted, and the per-track list either complete or
\* empty.
ChunkResults(batch) ==
    {TrackScrobble(IF full THEN Outcomes(batch, ig) ELSE <<>>,
                   Len(batch) - ig, ig) :
        ig \in 0..Min(MaxIgnored, Len(batch)), full \in BOOLEAN}

\* lines 377-383: one chunk's result taken into the accumulator
Accumulate(st, result) ==
    IF st = None
    THEN result
    ELSE IF result.scrobble # <<>>
         THEN [st EXCEPT !.accepted = st.accepted + result.accepted,
                         !.ignored = st.ignored + result.ignored,
                         !.scrobble = st.scrobble \o st.scrobble]
         ELSE st

InitScrobble ==
    /\ pc = "idle"
    /\ tracks = <<>>
    /\ requested = 10
    /\ batch_size = 10
    /\ batches = <<>>
    /\ idx = 1
    /\ status = None
    /\ ret = None
    /\ submitted = <<>>
    /\ applied = <<>>
    /\ results = <<>>
    /\ scrobble_params = None

\* lines 367-374: the call, up to the for loop
ScrobbleTracksCall(n, b) ==
    /\ pc = "idle"
    /\ LET ts == [i \in 1..n |-> i]
           bs == ClampBatchSize(b)
       IN  /\ Cardinality(ChunkStarts(n, bs)) <= MaxChunks
           /\ tracks' = ts
           /\ requested' = b
           /\ batch_size' = bs
           /\ batches' = divide_chunks(ts, bs)
    /\ status' = None
    /\ idx' = 1
    /\ pc' = "loop"
    /\ UNCHANGED <<ret, submitted, applied, results, scrobble_params>>
    /\ UNCHANGED <<configVars, modelVars>>

\* lines 375-383: one turn of the loop, Track.scrobble(batch) returning result
ScrobbleChunkOk ==
    /\ pc = "loop"
    /\ idx <= Len(batches)
    /\ \E result \in ChunkResults(batches[idx]) :
          /\ results' = Append(results, result)
          /\ status' = Accumulate(status, result)
    /\ scrobble_params' = ScrobbleParams(batches[idx])
    /\ submitted' = Append(submitted, batches[idx])
    /\ applied' = Append(applied, batches[idx])
    /\ idx' = idx + 1
    /\ UNCHANGED <<pc, tracks, requested, batch_size, batches, ret>>
    /\ UNCHANGED <<configVars, modelVars>>

\* The failure swallowed: the loop goes on to the next chunk.
ScrobbleChunkFail_Swallowed ==
    /\ pc = "loop"
    /\ idx <= Len(batches)
    /\ scrobble_params' = ScrobbleParams(batches[idx])
    /\ submitted' = Append(submitted, batches[idx])
    /\ idx' = idx + 1
    /\ UNCHANGED <<pc, tracks, requested, batch_size, batches, status, ret,
                   applied, results>>
    /\ UNCHANGED <<configVars, modelVars>>

\* line 376: Track.scrobble(batch) raises and nothing catches it; the request
\* may or may not have reached the service before the failure
ScrobbleChunkFail ==
    /\ pc = "loop"
    /\ idx <= Len(batches)
    /\ scrobble_params' = ScrobbleParams(batches[idx])
    /\ submitted' = Append(submitted, batches[idx])
    /\ \E reached \in BOOLEAN :
          applied' = IF reached THEN Append(applied, batches[idx]) ELSE applied
    /\ pc' = "failed"
    /\ ret' = [k |-> "raised"]
    /\ UNCHANGED <<tracks, requested, batch_size, batches, idx, status, results>>
    /\ UNCHANGED <<configVars, modelVars>>

\* line 384: return status
ScrobbleTracksReturn ==
    /\ pc = "loop"
    /\ idx > Len(batches)
    /\ pc' = "done"
    /\ ret' = status
    /\ UNCHANGED <<tracks, requested, batch_size, batches, idx, status,
                   submitted, applied, results, scrobble_params>>
    /\ UNCHANGED <<configVars, modelVars>>

NextScrobble ==
    \/ \E n \in 0..MaxTracks, b \in BatchSizes : ScrobbleTracksCall(n, b)
    \/ ScrobbleChunkOk
    \/ ScrobbleChunkFail
    \/ ScrobbleTracksReturn

\* ------------------------------------------------------------------------
\* Config
\* ------------------------------------------------------------------------

\* lines 96-102: the keys of params, in order
ParamOrder == <<"api_key", "api_secret", "username", "password", "session">>

ParamNames == {ParamOrder[i] : i \in 1..Len(ParamOrder)}

\* lines 70-73: the attributes without a default
RequiredParams == {"api_key", "api_secret", "username", "password"}

\* k.upper()
Upper(name) ==
    CASE name = "api_key" -> "API_KEY"
      [] name = "api_secret" -> "API_SECRET"
      [] name = "username" -> "USERNAME"
      [] name = "password" -> "PASSWORD"
      [] name = "session" -> "SESSION"

\* line 107: "LASTFM_{}".format(k.upper())
EnvName(name) == "LASTFM_" \o Upper(name)

EnvNames == {EnvName(name) : name \in ParamNames}

\* os.getenv(name, default)
Getenv(e, name, default) ==
    IF name \in DOMAIN e THEN Str(e[name]) ELSE Str(default)

\* pydrag.utils.md5 of a str: a digest, never the text itself
Md5(v) == Str("md5(" \o v.s \o ")")

TypeError == [k |-> "TypeError"]

KeyError == [k |-> "KeyError"]

AttributeError == [k |-> "AttributeError"]

ValueError == [k |-> "ValueError"]

Exceptions == {TypeError, KeyError, AttributeError, ValueError}

\* The identity of the next object constructed
NextId(inst) == IF inst = None THEN 1 ELSE inst.id + 1

\* lines 68-81: Config(**kwargs), the generated __init__ with the md5
\* converter of password and the default of session; a missing required
\* argument is a TypeError
ConfigNew(kwargs, id) ==
    IF ~(RequiredParams \subseteq DOMAIN kwargs)
    THEN TypeError
    ELSE [k |-> "Config", id |-> id,
          api_key |-> kwargs["api_key"],
          api_secret |-> kwargs["api_secret"],
          username |-> kwargs["username"],
          password |-> Md5(kwargs["password"]),
          session |-> IF "session" \in DOMAIN kwargs
                      THEN kwargs["session"] ELSE None]

\* line 104: the arguments that are not None
GivenArgs(params) ==
    [name \in {n \in ParamNames : params[n] # None} |-> params[name]]

\* lines 106-109: every field from the environment
EnvArgs(e) == [name \in ParamNames |-> Getenv(e, EnvName(name), "")]

\* The guard of line 103 testing api_key against None instead of for truth:
\* an empty api_key constructs again.
ConfigInstance_AnyKeyRecreates(inst, e, params) ==
    IF inst = None \/ params["api_key"] # None
    THEN LET given == GivenArgs(params)
             kwargs == IF DOMAIN given = {} THEN EnvArgs(e) ELSE given
             made == ConfigNew(kwargs, NextId(inst))
         IN  IF made = TypeError
             THEN [instance |-> inst, ret |-> TypeError]
             ELSE [instance |-> made, ret |-> made]
    ELSE [instance |-> inst, ret |-> inst]

\* lines 96-111: Config.instance, as the new Config._instance (line 81 sets
\* it when the constructor succeeds) and what the caller gets
ConfigInstance(inst, e, params) ==
    IF inst = None \/ Truthy(params["api_key"])
    THEN LET given == GivenArgs(params)
             kwargs == IF DOMAIN given = {} THEN EnvArgs(e) ELSE given
             made == ConfigNew(kwargs, NextId(inst))
         IN  IF made = TypeError
             THEN [instance |-> inst, ret |-> TypeError]
             ELSE [instance |-> made, ret |-> made]
    ELSE [instance |-> inst, ret |-> inst]

\* The arguments callers pass
CallParams ==
    [api_key : {None, Str(""), Str("k1"), Str("k2")},
     api_secret : {None, Str("s1")},
     username : {None, Str("u1")},
     password : {None, Str("p1")},
     session : {None, Str("sess1")}]

NoParams == [name \in ParamNames |-> None]

\* The environments of the process: no variable set, only the API key, all
\* but the API key, or all of them; the API key possibly set to the empty
\* string
EnvValue(name) == "env:" \o name

Environments ==
    {[name \in D |-> IF name = "LASTFM_API_KEY" /\ emptyKey
                      THEN "" ELSE EnvValue(name)] :
        D \in {{}, {"LASTFM_API_KEY"}, EnvNames \ {"LASTFM_API_KEY"}, EnvNames},
        emptyKey \in BOOLEAN}

NoCall == [k |-> "nocall"]

ConfigIdle ==
    /\ instance = None
    /\ lastArgs = NoCall
    /\ prevInstance = None
    /\ cfgRet = None
    /\ url = None

\* Whether the call constructs more objects than the model follows
WithinConfigs(params) ==
    (instance # None /\ Truthy(params["api_key"])) => instance.id < MaxConfigs

\* lines 87-111: a call of Config.instance
ConfigInstanceCall ==
    \E params \in CallParams :
        /\ WithinConfigs(params)
        /\ LET r == ConfigInstance(instance, env, params)
           IN  /\ instance' = r.instance
               /\ cfgRet' = r.ret
        /\ lastArgs' = params
        /\ prevInstance' = instance
        /\ UNCHANGED <<env, url>>
        /\ UNCHANGED <<scrobbleVars, modelVars>>

Tokens == {"t1"}

\* line 77 with line 52: Config.auth_url.format(token, api_key)
FormatAuthUrl(token, api_key) ==
    Str("https://www.last.fm/api/auth?token=" \o token
        \o "&api_key=" \o api_key.s)

\* auth.py lines 50-52: AuthToken.auth_url
AuthTokenAuthUrl ==
    \E token \in Tokens :
        /\ LET r == ConfigInstance(instance, env, NoParams)
           IN  /\ instance' = r.instance
               /\ cfgRet' = r.ret
               /\ url' = IF r.ret = TypeError THEN TypeError
                         ELSE FormatAuthUrl(token, r.ret.api_key)
        /\ lastArgs' = NoParams
        /\ prevInstance' = instance
        /\ UNCHANGED env
        /\ UNCHANGED <<scrobbleVars, modelVars>>

NextConfig ==
    \/ ConfigInstanceCall
    \/ AuthTokenAuthUrl

\* ------------------------------------------------------------------------
\* BaseModel.from_dict
\* ------------------------------------------------------------------------

\* common.py lines 114-119
AttributesFields ==
    <<Field("timestamp", "int", FALSE), Field("rank", "int", FALSE),
      Field("date", "str", FALSE), Field("position", "int", FALSE)>>

\* common.py lines 122-125
ImageFields == <<Field("size", "str", TRUE), Field("text", "str", TRUE)>>

\* common.py lines 128-131
DateFields == <<Field("timestamp", "int", TRUE), Field("text", "str", TRUE)>>

\* common.py lines 141-145
LinkFields ==
    <<Field("href", "str", TRUE), Field("rel", "str", TRUE),
      Field("text", "str", TRUE)>>

\* common.py lines 148-153
WikiFields ==
    <<Field("content", "str", FALSE), Field("summary", "str", FALSE),
      Field("published", "str", FALSE), Field("links", "other", FALSE)>>

\* track.py lines 68-85
TrackFields ==
    <<Field("name", "str", TRUE), Field("artist", "other", TRUE),
      Field("url", "str", FALSE), Field("mbid", "str", FALSE),
      Field("image", "other", FALSE), Field("playcount", "int", FALSE),
      Field("listeners", "int", FALSE), Field("streamable", "str", FALSE),
      Field("duration", "str", FALSE), Field("match", "float", FALSE),
      Field("wiki", "other", FALSE), Field("album", "other", FALSE),
      Field("top_tags", "other", FALSE), Field("attr", "other", FALSE),
      Field("date", "other", FALSE), Field("loved", "int", FALSE)>>

\* fields(cls)
Fields(c) ==
    CASE c = "Attributes" -> AttributesFields
      [] c = "Image" -> ImageFields
      [] c = "Date" -> DateFields
      [] c = "Link" -> LinkFields
      [] c = "Wiki" -> WikiFields
      [] c = "ScrobbleTrack" -> ScrobbleTrackFields
      [] c = "Track" -> TrackFields

FieldNames(c) == {Fields(c)[i].name : i \in 1..Len(Fields(c))}

RequiredFields(c) ==
    {Fields(c)[i].name : i \in {j \in 1..Len(Fields(c)) : Fields(c)[j].required}}

\* common.py line 169: the default of ScrobbleTrack.timestamp, the time of
\* the call
Now == PyInt(MaxNumber)

\* The default of a field left out of the mapping
Default(c, name) ==
    IF c = "ScrobbleTrack" /\ name = "timestamp" THEN Now ELSE None

\* The decimal strings of the numbers of the model
IsNumeral(str) == \E n \in 0..MaxNumber : ToString(n) = str

ParseInt(str) == CHOOSE n \in 0..MaxNumber : ToString(n) = str

\* str(v) of a value that is no str: a text that renders v
Repr(v) == [k |-> "str", s |-> "repr", of |-> v]

\* line 35: str(v)
ToStr(v) ==
    CASE v.k = "str" -> v
      [] v.k = "int" -> Str(ToString(v.n))
      [] OTHER -> Repr(v)

\* line 37: int(v)
ToInt(v) ==
    CASE v.k = "int" -> v
      [] v.k = "float" -> PyInt(v.n)
      [] v.k = "str" ->
           IF "of" \notin DOMAIN v /\ IsNumeral(v.s)
           THEN PyInt(ParseInt(v.s)) ELSE ValueError
      [] OTHER -> TypeError

\* line 39: float(v), of the whole numbers of the model
ToFloat(v) ==
    CASE v.k = "float" -> v
      [] v.k = "int" -> [k |-> "float", n |-> v.n]
      [] v.k = "str" ->
           IF "of" \notin DOMAIN v /\ IsNumeral(v.s)
           THEN [k |-> "float", n |-> ParseInt(v.s)] ELSE ValueError
      [] OTHER -> TypeError

\* lines 34-39: the coercion of one field
Coerce(type, v) ==
    CASE type = "str" -> ToStr(v)
      [] type = "int" -> ToInt(v)
      [] type = "float" -> ToFloat(v)
      [] OTHER -> v

\* The outcome of a step on the caller's mapping: the mapping as the step
\* left it and the exception it raised, None when it raised none
Step(d, exc) == [data |-> d, exc |-> exc]

\* lines 30-39: the loop over fields(cls), from field i on; a coercion that
\* raises leaves the fields before it coerced
RECURSIVE CoerceFields(_, _, _)
CoerceFields(fs, i, d) ==
    IF i > Len(fs)
    THEN Step(d, None)
    ELSE LET f == fs[i]
         IN  IF f.name \notin DOMAIN d \/ d[f.name] = None
             THEN CoerceFields(fs, i + 1, d)
             ELSE LET v == Coerce(f.type, d[f.name])
                  IN  IF v \in Exceptions
                      THEN Step(d, v)
                      ELSE CoerceFields(fs, i + 1, Put(d, f.name, v))

\* line 41: cls(**data), the generated __init__: an unknown keyword or a
\* missing required one is a TypeError
Construct(c, d) ==
    IF ~(DOMAIN d \subseteq FieldNames(c)) \/ ~(RequiredFields(c) \subseteq DOMAIN d)
    THEN TypeError
    ELSE [k |-> c,
          f |-> [name \in FieldNames(c) |->
                    IF name \in DOMAIN d THEN d[name] ELSE Default(c, name)]]

\* What a from_dict call leaves: the caller's mapping and the instance or
\* the exception
Outcome(d, out) == [data |-> d, out |-> out]

\* lines 28-41: BaseModel.from_dict
BaseFromDict(c, d) ==
    LET r == CoerceFields(Fields(c), 1, d)
    IN  IF r.exc # None
        THEN Outcome(r.data, r.exc)
        ELSE Outcome(r.data, Construct(c, r.data))

\* ------------------------------------------------------------------------
\* Track.from_dict
\* ------------------------------------------------------------------------

\* track.py lines 99-102: data["top_tags"] = data["top_tags"]["tag"], a
\* KeyError passed over; subscripting what is no dict with "tag" is a
\* TypeError
FlattenTopTags(d) ==
    IF "top_tags" \notin DOMAIN d
    THEN Step(d, None)
    ELSE LET w == d["top_tags"]
         IN  IF w.k # "dict"
             THEN Step(d, TypeError)
             ELSE IF "tag" \notin DOMAIN w.m
                  THEN Step(d, None)
                  ELSE Step(Put(d, "top_tags", w.m["tag"]), None)

\* track.py lines 104-108: the artist of the album, when it is a str
PromoteAlbumArtist(d) ==
    IF "album" \notin DOMAIN d
    THEN Step(d, None)
    ELSE LET a == d["album"]
         IN  IF a.k # "dict"
             THEN Step(d, TypeError)
             ELSE IF "artist" \notin DOMAIN a.m
                  THEN Step(d, None)
                  ELSE IF a.m["artist"].k = "str"
                       THEN Step(Put(d, "album",
                                     Dict(Put(a.m, "artist",
                                              Dict([name |-> a.m["artist"]])))),
                                 None)
                       ELSE Step(d, None)

\* The promotion left out
PromoteArtist_Skipped(d) == d

\* track.py lines 110-111: the artist of the track, when it is a str
PromoteArtist(d) ==
    IF "artist" \in DOMAIN d /\ d["artist"].k = "str"
    THEN Put(d, "artist", Dict([name |-> d["artist"]]))
    ELSE d

\* track.py lines 87-113: Track.from_dict
TrackFromDictOf(d) ==
    LET r1 == FlattenTopTags(d)
    IN  IF r1.exc # None
        THEN Outcome(r1.data, r1.exc)
        ELSE LET r2 == PromoteAlbumArtist(r1.data)
             IN  IF r2.exc # None
                 THEN Outcome(r2.data, r2.exc)
                 ELSE BaseFromDict("Track", PromoteArtist(r2.data))

\* ------------------------------------------------------------------------
\* Wiki.from_dict
\* ------------------------------------------------------------------------

\* common.py line 161: list(map(Link.from_dict, items)), from item i on;
\* Link.from_dict of what is no dict is a TypeError of cls(**data)
RECURSIVE MapLinks(_, _)
MapLinks(items, i) ==
    IF i > Len(items)
    THEN List(<<>>)
    ELSE LET one == IF items[i].k = "dict"
                    THEN BaseFromDict("Link", items[i].m).out
                    ELSE TypeError
             rest == MapLinks(items, i + 1)
         IN  IF one \in Exceptions THEN one
             ELSE IF rest \in Exceptions THEN rest
             ELSE List(<<one>> \o rest.items)

\* common.py lines 157-161
UnwrapLinks(d) ==
    IF "links" \notin DOMAIN d
    THEN Step(d, None)
    ELSE LET w == d["links"]
         IN  IF w.k # "dict"
             THEN Step(d, TypeError)
             ELSE IF "link" \notin DOMAIN w.m
                  THEN Step(d, KeyError)
                  ELSE LET l == IF w.m["link"].k = "dict"
                                THEN List(<<w.m["link"]>>) ELSE w.m["link"]
                           wrapped == Put(d, "links", Dict(Put(w.m, "link", l)))
                           links == IF l.k = "list"
                                    THEN MapLinks(l.items, 1) ELSE TypeError
                       IN  IF links \in Exceptions
                           THEN Step(wrapped, links)
                           ELSE Step(Put(d, "links", links), None)

\* common.py lines 155-162: Wiki.from_dict
WikiFromDictOf(d) ==
    LET r == UnwrapLinks(d)
    IN  IF r.exc # None
        THEN Outcome(r.data, r.exc)
        ELSE BaseFromDict("Wiki", r.data)

\* ------------------------------------------------------------------------
\* ScrobbleTrack.from_dict
\* ------------------------------------------------------------------------

\* common.py line 189
TextFields == {"album", "artist", "track", "album_artist"}

\* The empty text kept as it is
FlattenText_KeepsEmpty(d, name) ==
    IF name \notin DOMAIN d
    THEN None
    ELSE LET v == d[name]
         IN  IF v.k # "dict"
             THEN AttributeError
             ELSE IF "text" \in DOMAIN v.m THEN v.m["text"] ELSE None

\* common.py lines 186-188: data[k]["text"] if data.get(k, {}).get("text",
\* "") != "" else None; what is no dict has no get
FlattenText(d, name) ==
    IF name \notin DOMAIN d
    THEN None
    ELSE LET v == d[name]
         IN  IF v.k # "dict"
             THEN AttributeError
             ELSE IF "text" \in DOMAIN v.m /\ v.m["text"] # Str("")
                  THEN v.m["text"] ELSE None

\* common.py lines 184-191: data.update of the four text fields; the dict
\* is built before data is updated, so a failure leaves data as it was
FlattenTextFields(d) ==
    IF \E name \in TextFields : FlattenText(d, name) \in Exceptions
    THEN Step(d, AttributeError)
    ELSE Step([x \in DOMAIN d \cup TextFields |->
                  IF x \in TextFields THEN FlattenText(d, x) ELSE d[x]],
              None)

\* common.py lines 182-192: ScrobbleTrack.from_dict
ScrobbleTrackFromDictOf(d) ==
    LET r == FlattenTextFields(d)
    IN  IF r.exc # None
        THEN Outcome(r.data, r.exc)
        ELSE BaseFromDict("ScrobbleTrack", r.data)

\* cls.from_dict(d) of the classes that are serialised and read back:
\* ScrobbleTrack overrides from_dict, the others inherit it
FromDictOf(c, d) ==
    IF c = "ScrobbleTrack"
    THEN ScrobbleTrackFromDictOf(d)
    ELSE BaseFromDict(c, d)

\* ------------------------------------------------------------------------
\* The payloads the from_dict calls are given
\* ------------------------------------------------------------------------

\* A key the mapping does not hold
Absent == [k |-> "absent"]

\* The mapping c without the keys it marks absent
Strip(c) == [x \in {y \in DOMAIN c : c[y] # Absent} |-> c[x]]

TagList == List(<<Dict([name |-> Str("rap")]), Dict([name |-> Str("hiphop")])>>)

TrackPayloads ==
    {Strip(c) : c \in
             [name : {Absent, Str("One Dance")},
              artist : {Absent, None, Str("Drake"),
                          Dict([name |-> Str("Drake")]),
                          Dict([name |-> Str("Drake"), mbid |-> Str("m1")])},
              album : {Absent, None, Dict([title |-> Str("Views")]),
                         Dict([title |-> Str("Views"), artist |-> Str("Drake")]),
                         Dict([title |-> Str("Views"),
                               artist |-> Dict([name |-> Str("Drake")])])},
              top_tags : {Absent, Dict(<<>>), Dict([tag |-> TagList]),
                            TagList},
              playcount : {Absent, Str("7")}]}

Link1 == Dict([href |-> Str("h1"), rel |-> Str("original"), text |-> Str("")])

Link2 == Dict([href |-> Str("h2"), rel |-> Str("edit"), text |-> Str("")])

WikiPayloads ==
    {Strip(c) : c \in
             [content : {Absent, Str("text")},
              published : {Absent, PyInt(7)},
              links : {Absent, None, Dict(<<>>), Dict([link |-> Link1]),
                         Dict([link |-> List(<<Link1, Link2>>)]),
                         Dict([link |-> List(<<>>)]),
                         Dict([link |-> List(<<Link2, Str("h3")>>)])}]}

Text(str) == Dict([text |-> Str(str)])

ScrobbleTrackPayloads ==
    {Strip(c) : c \in
             [artist : {Absent, Text(""), Text("Drake"), Str("Drake")},
              track : {Absent, Text(""), Text("One Dance")},
              album : {Absent, Text(""), Text("Views")},
              album_artist : {Absent, Text(""), Text("Drake")},
              mbid : {Absent, Str("m1"), Text("m1")},
              timestamp : {Absent, Str("7")}]}

\* The classes that use BaseModel.from_dict as it is
PrimitiveClasses == {"Attributes", "Image", "Date", "Link"}

PrimitivePayloads(c) ==
    CASE c = "Attributes" ->
           {Strip(p) : p \in
               [timestamp : {Absent, Str("7"), PyInt(7)},
                rank : {Absent, None, Str("3")},
                date : {Absent, Str("today"), PyInt(7)},
                position : {Absent, Str("x")}]}
      [] c = "Image" ->
           {Strip(p) : p \in
               [size : {Absent, None, Str("small"), PyInt(7)},
                text : {Absent, Str("u1")}]}
      [] c = "Date" ->
           {Strip(p) : p \in
               [timestamp : {Absent, Str("7"), PyInt(7), Str("x")},
                text : {Absent, None, Str("today")}]}
      [] c = "Link" ->
           {Strip(p) : p \in
               [href : {Absent, Str("h1")},
                rel : {Absent, Str("original"), PyInt(7)},
                text : {Absent, Str("")}]}

\* The instances with every field populated that are serialised and read back
RoundTripClasses == PrimitiveClasses \cup {"ScrobbleTrack"}

ModelValues(c) ==
    CASE c = "Attributes" ->
           {Instance(c, f) : f \in
               [timestamp : {PyInt(0), PyInt(7)}, rank : {PyInt(1), PyInt(3)},
                date : {Str("today"), Str("7")}, position : {PyInt(2)}]}
      [] c = "Image" ->
           {Instance(c, f) : f \in
               [size : {Str("small"), Str("large")}, text : {Str("u1"), Str("")}]}
      [] c = "Date" ->
           {Instance(c, f) : f \in
               [timestamp : {PyInt(0), PyInt(7)}, text : {Str("today"), Str("")}]}
      [] c = "Link" ->
           {Instance(c, f) : f \in
               [href : {Str("h1"), Str("h2")}, rel : {Str("original")},
                text : {Str("edit"), Str("")}]}
      [] c = "ScrobbleTrack" ->
           {Instance(c, f) : f \in
               [artist : {Str("Drake")}, track : {Str("One Dance"), Str("7")},
                timestamp : {PyInt(0), PyInt(7)}, track_number : {Str("3")},
                album : {Str("Views")}, album_artist : {Str("Drake")},
                duration : {PyInt(3), PyInt(12)}, mbid : {Str("m1")},
                context : {Str("c1")}, stream_id : {Str("s1")},
                chosen_by_user : {PyBool(TRUE), PyBool(FALSE)}]}

ModelsIdle ==
    /\ cls = "none"
    /\ orig = <<>>
    /\ data = <<>>
    /\ obj = None
    /\ value = None

\* A call of from_dict of a class that does not override it
PrimitiveFromDict ==
    /\ cls = "none"
    /\ \E c \in PrimitiveClasses :
          \E d \in PrimitivePayloads(c) :
              LET r == BaseFromDict(c, d)
              IN  /\ cls' = c
                  /\ orig' = d
                  /\ data' = r.data
                  /\ obj' = r.out
    /\ value' = None
    /\ UNCHANGED <<scrobbleVars, configVars>>

\* cls.from_dict(v.to_dict()) of an instance v
RoundTrip ==
    /\ cls = "none"
    /\ \E c \in RoundTripClasses :
          \E v \in ModelValues(c) :
              LET r == FromDictOf(c, ToDict(v))
              IN  /\ cls' = c
                  /\ value' = v
                  /\ orig' = ToDict(v)
                  /\ data' = r.data
                  /\ obj' = r.out
    /\ UNCHANGED <<scrobbleVars, configVars>>

\* A call of Track.from_dict
TrackFromDict ==
    /\ cls = "none"
    /\ \E d \in TrackPayloads :
          LET r == TrackFromDictOf(d)
          IN  /\ cls' = "Track"
              /\ orig' = d
              /\ data' = r.data
              /\ obj' = r.out
    /\ value' = None
    /\ UNCHANGED <<scrobbleVars, configVars>>

\* A call of Wiki.from_dict
WikiFromDict ==
    /\ cls = "none"
    /\ \E d \in WikiPayloads :
          LET r == WikiFromDictOf(d)
          IN  /\ cls' = "Wiki"
              /\ orig' = d
              /\ data' = r.data
              /\ obj' = r.out
    /\ value' = None
    /\ UNCHANGED <<scrobbleVars, configVars>>

\* A call of ScrobbleTrack.from_dict
ScrobbleTrackFromDict ==
    /\ cls = "none"
    /\ \E d \in ScrobbleTrackPayloads :
          LET r == ScrobbleTrackFromDictOf(d)
          IN  /\ cls' = "ScrobbleTrack"
              /\ orig' = d
              /\ data' = r.data
              /\ obj' = r.out
    /\ value' = None
    /\ UNCHANGED <<scrobbleVars, configVars>>

NextModels ==
    \/ WikiFromDict
    \/ TrackFromDict
    \/ ScrobbleTrackFromDict
    \/ PrimitiveFromDict
    \/ RoundTrip

\* ------------------------------------------------------------------------
\* Specifications
\* ------------------------------------------------------------------------

Init == InitScrobble /\ ConfigIdle /\ env = <<>> /\ ModelsIdle

Next == NextScrobble

Spec == Init /\ [][Next]_vars

InitConfig ==
    InitScrobble /\ ConfigIdle /\ env \in Environments /\ ModelsIdle

SpecConfig == InitConfig /\ [][NextConfig]_vars

SpecModels == Init /\ [][NextModels]_vars

\* ------------------------------------------------------------------------
\* Helpers of the properties
\* ------------------------------------------------------------------------

RECURSIVE Flatten(_)
Flatten(ss) == IF ss = <<>> THEN <<>> ELSE Head(ss) \o Flatten(Tail(ss))

RECURSIVE SumOf(_, _)
SumOf(rs, f) == IF rs = <<>> THEN 0 ELSE rs[1][f] + SumOf(Tail(rs), f)

Lengths(ss) == [j \in 1..Len(ss) |-> Len(ss[j])]

IsPrefix(s, t) == Len(s) <= Len(t) /\ s = SubSeq(t, 1, Len(s))

\* ------------------------------------------------------------------------
\* Properties of Track.scrobble_tracks
\* ------------------------------------------------------------------------

\* C1: for every track sequence and every requested batch size b >= 1 the
\* chunks are contiguous, in order, of at most min(b, 50) tracks each, all
\* but the last of exactly min(b, 50); their concatenation is the input and
\* a run that returns has submitted every track in exactly one chunk.
\* 23 tracks with b = 10 give chunks of 10, 10 and 3; b = 75 is cut to 50.
C1_Chunking ==
    pc # "idle" =>
        LET m == Min(requested, 50)
        IN  /\ Flatten(batches) = tracks
            /\ \A j \in 1..Len(batches) :
                  /\ 1 <= Len(batches[j]) /\ Len(batches[j]) <= m
                  /\ j < Len(batches) => Len(batches[j]) = m
            /\ IsPrefix(Flatten(submitted), tracks)
            /\ pc = "done" => Flatten(submitted) = tracks
            /\ (Len(tracks) = 23 /\ requested = 10)
                  => Lengths(batches) = <<10, 10, 3>>
            /\ requested = 75 => batch_size = 50

C1_Witness ==
    /\ pc = "done"
    /\ requested = 75
    /\ Len(tracks) = 52
    /\ Lengths(submitted) = <<50, 2>>

\* C2: when every chunk submission succeeds, the accepted and ignored
\* counters of the returned cumulative result are the sums of the counters
\* reported by all the chunk results.
C2_CountersAreSums ==
    (pc = "done" /\ ret # None) =>
        /\ ret.accepted = SumOf(results, "accepted")
        /\ ret.ignored = SumOf(results, "ignored")

\* C3: when every chunk submission succeeds, the per-track outcomes of the
\* returned cumulative result are the per-track outcomes of all the chunk
\* results, concatenated in chunk order.
\* (Stated for the runs in which every chunk result lists one outcome per
\* track of its chunk, as the service does.)
C3_OutcomesConcatenated ==
    (/\ pc = "done"
     /\ ret # None
     /\ \A j \in 1..Len(results) :
           Len(results[j].scrobble) = Len(batches[j])) =>
        ret.scrobble = Flatten([j \in 1..Len(results) |-> results[j].scrobble])

\* The state part of C4
SequentialState ==
    /\ IsPrefix(submitted, batches)
    /\ IsPrefix(applied, submitted)
    /\ Len(submitted) - Len(results) \in {0, 1}
    /\ Len(submitted) - Len(applied) \in {0, 1}
    /\ Len(results) < Len(submitted) => pc = "failed"
    /\ pc = "failed" =>
          /\ ret = [k |-> "raised"]
          /\ Len(submitted) = idx
          /\ IsPrefix(SubSeq(batches, 1, idx - 1), applied)
    /\ pc = "done" => submitted = batches /\ applied = batches

\* The step part of C4
SequentialStep ==
    /\ IsPrefix(applied, applied')
    /\ IsPrefix(submitted, submitted')
    /\ Len(submitted') <= Len(submitted) + 1
    /\ pc = "failed" => submitted' = submitted /\ applied' = applied

\* C4: the chunks are submitted one at a time in chunk order, chunk k+1 only
\* after the submission of chunk k returned; a failing submission of chunk
\* k reaches the caller, no later chunk is submitted, nothing is submitted
\* twice and what the service applied stays applied.
C4_SequentialFailFast == [](SequentialState) /\ [][SequentialStep]_vars

C4_Witness ==
    /\ pc = "failed"
    /\ idx = 2
    /\ Len(batches) = 3
    /\ Len(applied) = 1

\* ------------------------------------------------------------------------
\* Properties of Config
\* ------------------------------------------------------------------------

Called == lastArgs # NoCall

\* C5: once an instance exists, a call whose api_key is absent or empty
\* returns that same instance, unchanged, whatever else it passes; the
\* instance is replaced only by a call with a non-empty api_key.
C5_SingletonKept ==
    (Called /\ prevInstance # None) =>
        /\ ~Truthy(lastArgs["api_key"]) =>
              instance = prevInstance /\ cfgRet = prevInstance
        /\ instance # prevInstance => Truthy(lastArgs["api_key"])

C5_Witness ==
    /\ Called
    /\ prevInstance # None
    /\ lastArgs["api_key"] = Str("")
    /\ \A name \in ParamNames : lastArgs[name] # None
    /\ cfgRet = prevInstance
    /\ instance.id = 1

\* What a field holds when it is given the value v
Stored(name, v) == IF name = "password" THEN Md5(v) ELSE v

\* Whether the last call ran the constructor (line 103)
Constructing == Called /\ (prevInstance = None \/ Truthy(lastArgs["api_key"]))

\* C6: when Config.instance creates the singleton, the call succeeds and
\* each field that was given no explicit value holds the value of its own
\* LASTFM_ environment variable, also when other fields were given.
C6_PerFieldEnvFallback ==
    Constructing =>
        /\ cfgRet.k = "Config"
        /\ \A name \in ParamNames :
              lastArgs[name] = None =>
                  cfgRet[name] = Stored(name, Getenv(env, EnvName(name), ""))

\* C7: the first use of an uninitialised Config, with no explicit value and
\* no usable API key in the environment, ends in an error and never in a
\* Config whose api_key is empty.
C7_NoKeyIsAnError ==
    (Called /\ prevInstance = None /\ lastArgs = NoParams
        /\ ~Truthy(Getenv(env, "LASTFM_API_KEY", ""))) =>
        /\ cfgRet.k # "Config"
        /\ instance = None

\* ------------------------------------------------------------------------
\* Properties of the from_dict normalisation
\* ------------------------------------------------------------------------

\* Whether mapping m holds a dict under key
HasDict(m, key) == key \in DOMAIN m /\ m[key].k = "dict"

\* Whether mapping m holds a str under key
HasStr(m, key) == key \in DOMAIN m /\ m[key].k = "str"

\* The name-only stub of the artist called name
Stub(name) == Dict([name |-> name])

\* C8: the artist of a Track built by from_dict is never a bare string: a
\* string artist becomes the stub holding only its name, a mapping artist
\* is passed through unchanged, and the artist inside the payload's album
\* is promoted the same way, the rest of the album being left as it was.
C8_ArtistNeverBareString ==
    (cls = "Track" /\ obj.k = "Track") =>
        /\ obj.f["artist"].k # "str"
        /\ HasStr(orig, "artist") => obj.f["artist"] = Stub(orig["artist"])
        /\ HasDict(orig, "artist") => obj.f["artist"] = orig["artist"]
        /\ (HasDict(orig, "album") /\ "artist" \in DOMAIN orig["album"].m) =>
              LET before == orig["album"].m
                  after == obj.f["album"]
              IN  /\ after.k = "dict"
                  /\ DOMAIN after.m = DOMAIN before
                  /\ after.m["artist"].k # "str"
                  /\ after.m["artist"] =
                        IF before["artist"].k = "str"
                        THEN Stub(before["artist"]) ELSE before["artist"]
                  /\ \A x \in DOMAIN before \ {"artist"} :
                        after.m[x] = before[x]

C8_Witness ==
    /\ cls = "Track"
    /\ obj.k = "Track"
    /\ HasStr(orig, "artist")
    /\ HasDict(orig, "album")
    /\ HasStr(orig["album"].m, "artist")
    /\ obj.f["artist"] = Stub(Str("Drake"))
    /\ obj.f["album"].m["artist"] = Stub(Str("Drake"))

\* Whether a field is absent: None or the empty sequence
IsAbsent(v) == v = None \/ v = List(<<>>)

\* C9: a wrapper key or the sub-key inside it that the payload does not
\* hold is no error and leaves the field absent (Track: top_tags and its
\* "tag", album and its artist; Wiki: links and its "link"); with wrapper
\* and sub-key present the field is the inner list, in its order.
C9_AbsentWrapperTolerated ==
    /\ cls = "Track" =>
          /\ obj # KeyError \/ ~(RequiredFields("Track") \subseteq DOMAIN orig)
          /\ obj.k = "Track" =>
                /\ "top_tags" \notin DOMAIN orig => IsAbsent(obj.f["top_tags"])
                /\ (HasDict(orig, "top_tags")
                       /\ "tag" \notin DOMAIN orig["top_tags"].m)
                      => IsAbsent(obj.f["top_tags"])
                /\ (HasDict(orig, "top_tags")
                       /\ "tag" \in DOMAIN orig["top_tags"].m)
                      => obj.f["top_tags"] = orig["top_tags"].m["tag"]
                /\ "album" \notin DOMAIN orig => IsAbsent(obj.f["album"])
    /\ cls = "Wiki" =>
          /\ obj # KeyError
          /\ ("links" \notin DOMAIN orig
                 \/ (HasDict(orig, "links")
                       /\ "link" \notin DOMAIN orig["links"].m))
                => (obj.k = "Wiki" /\ IsAbsent(obj.f["links"]))

\* C10: ScrobbleTrack.from_dict turns {"text": v} into v when v is not
\* empty and into None when v is empty, never into the empty string, for
\* album, artist, track and album_artist, and flattens no other field.
C10_TextFieldsFlattened ==
    (cls = "ScrobbleTrack" /\ obj.k = "ScrobbleTrack") =>
        /\ \A name \in TextFields :
              /\ obj.f[name] # Str("")
              /\ (HasDict(orig, name) /\ "text" \in DOMAIN orig[name].m) =>
                    obj.f[name] = IF orig[name].m["text"] = Str("")
                                  THEN None ELSE orig[name].m["text"]
        /\ HasDict(orig, "mbid") =>
              /\ obj.f["mbid"] = ToStr(orig["mbid"])
              /\ obj.f["mbid"] # orig["mbid"].m["text"]

C10_Witness ==
    /\ cls = "ScrobbleTrack"
    /\ obj.k = "ScrobbleTrack"
    /\ HasDict(orig, "artist") /\ orig["artist"] = Text("Drake")
    /\ HasDict(orig, "track") /\ orig["track"] = Text("")
    /\ HasDict(orig, "mbid")
    /\ obj.f["artist"] = Str("Drake")
    /\ obj.f["track"] = None

\* C11: an instance with every field populated survives the round trip:
\* from_dict of its to_dict succeeds and the to_dict of what it returns is
\* the to_dict of the instance.
C11_RoundTrip ==
    value # None =>
        /\ obj.k = cls
        /\ ToDict(obj) = ToDict(value)

\* C12: from_dict has no side effects on its input: after the call the
\* mapping that was passed holds the keys and values it held before it.
C12_InputUnchanged ==
    cls # "none" => data = orig

\* C13: a from_dict call whose payload lacks a required field of the class
\* fails: it raises and returns no instance.
C13_MissingRequiredFails ==
    (/\ cls # "none"
     /\ value = None
     /\ \E name \in RequiredFields(cls) : name \notin DOMAIN orig)
        => obj \in Exceptions

\* C14: the params Track.scrobble builds for a chunk carry the field names in
\* camelCase: every entry of a track's to_api_dict is in params under its
\* camelCase name and the track's index.
C14_CamelCaseKeys ==
    scrobble_params # None =>
        LET batch == submitted[Len(submitted)]
        IN  \A i \in 1..Len(batch) :
                LET api == ToApiDict(TrackOf(batch[i]))
                IN  \A name \in DOMAIN api :
                        /\ Key(name, i - 1) \in DOMAIN scrobble_params
                        /\ scrobble_params[Key(name, i - 1)] = api[name]

\* C15: the params of a chunk hold method = "track.scrobble" and, for the
\* track at zero-based position i of the chunk and each field f of it that is
\* not None, one entry "f[i]" with the field's value; they hold no entry for a
\* None field and nothing else, so no two tracks share a key.
C15_IndexedParams ==
    scrobble_params # None =>
        LET batch == submitted[Len(submitted)]
            slots == (1..Len(batch)) \X FieldNames("ScrobbleTrack")
            present == {p \in slots : TrackOf(batch[p[1]]).f[p[2]] # None}
        IN  /\ "method" \in DOMAIN scrobble_params
            /\ scrobble_params["method"] = Str("track.scrobble")
            /\ \A p \in present :
                  /\ Key(p[2], p[1] - 1) \in DOMAIN scrobble_params
                  /\ scrobble_params[Key(p[2], p[1] - 1)]
                        = TrackOf(batch[p[1]]).f[p[2]]
            /\ \A p \in slots \ present :
                  Key(p[2], p[1] - 1) \notin DOMAIN scrobble_params
            /\ Cardinality(DOMAIN scrobble_params) = Cardinality(present) + 1

\* The second chunk of a call has been handed to Track.scrobble: its first
\* track, the third of the call, is at index 0 and its album is None
C15_Witness ==
    /\ Len(submitted) = 2
    /\ submitted[2] = <<3, 4>>
    /\ scrobble_params["timestamp[0]"] = PyInt(3)
    /\ scrobble_params["timestamp[1]"] = PyInt(4)
    /\ scrobble_params["track_number[0]"] = Str("3")
    /\ "album[0]" \notin DOMAIN scrobble_params
    /\ scrobble_params["album[1]"] = Str("Views")
    /\ "timestamp[2]" \notin DOMAIN scrobble_params

====
